---- MODULE Spec2Model ----
(***************************************************************************)
(* The shortcut loader of the keypeek applet (src/shortcuts.rs) and the    *)
(* application model that owns its result (src/app.rs).                    *)
(*                                                                         *)
(* A Rust String is a sequence of one-character strings, so that joining,  *)
(* prefix tests and byte-wise comparison are computed and not assumed.     *)
(* Option<T> is a sequence of length 0 (None) or 1 (Some).                 *)
(***************************************************************************)
EXTENDS Integers, Sequences, FiniteSets, TLC

None == <<>>
Some(x) == <<x>>
IsSome(o) == Len(o) = 1
Unwrap(o) == o[1]

(* ----------------------------- strings -------------------------------- *)

\* The printable ASCII characters in code order, from 0x20 (space). The grave
\* accent (0x60) cannot be written in a string here; its place holds its name.
AsciiChars ==
    <<" ", "!", "\"", "#", "$", "%", "&", "'", "(", ")", "*", "+", ",", "-", ".", "/", "0", "1",
     "2", "3", "4", "5", "6", "7", "8", "9", ":", ";", "<", "=", ">", "?", "@", "A", "B", "C",
     "D", "E", "F", "G", "H", "I", "J", "K", "L", "M", "N", "O", "P", "Q", "R", "S", "T", "U",
     "V", "W", "X", "Y", "Z", "[", "\\", "]", "^", "_", "GRAVE", "a", "b", "c", "d", "e", "f", "g",
     "h", "i", "j", "k", "l", "m", "n", "o", "p", "q", "r", "s", "t", "u", "v", "w", "x", "y",
     "z", "{", "|", "}", "~">>

\* The byte of a character.
Ord == [c \in {AsciiChars[i] : i \in DOMAIN AsciiChars} |->
            31 + (CHOOSE i \in DOMAIN AsciiChars : AsciiChars[i] = c)]

\* str::cmp: lexicographic on bytes; -1 less, 0 equal, 1 greater.
RECURSIVE StrCmp(_, _)
StrCmp(a, b) ==
    IF a = <<>> THEN (IF b = <<>> THEN 0 ELSE -1)
    ELSE IF b = <<>> THEN 1
    ELSE IF Ord[Head(a)] < Ord[Head(b)] THEN -1
    ELSE IF Ord[Head(a)] > Ord[Head(b)] THEN 1
    ELSE StrCmp(Tail(a), Tail(b))

\* str::starts_with
StartsWith(s, prefix) ==
    Len(s) >= Len(prefix) /\ SubSeq(s, 1, Len(prefix)) = prefix

\* str::strip_prefix: Some(rest) when s starts with prefix, None otherwise.
StripPrefix(s, prefix) ==
    IF StartsWith(s, prefix) THEN Some(SubSeq(s, Len(prefix) + 1, Len(s))) ELSE None

\* Option::unwrap_or
UnwrapOr(o, default) == IF IsSome(o) THEN Unwrap(o) ELSE default

\* [String]::join(sep)
RECURSIVE Join(_, _)
Join(parts, sep) ==
    IF parts = <<>> THEN <<>>
    ELSE IF Len(parts) = 1 THEN parts[1]
    ELSE parts[1] \o sep \o Join(Tail(parts), sep)

DigitChars == <<"0","1","2","3","4","5","6","7","8","9">>

\* FormatU8 keeping the last digit only.
FormatU8_last_digit(i) == <<DigitChars[(i % 10) + 1]>>

\* format!("{}", i) for i: u8, the decimal digits without padding.
RECURSIVE FormatU8(_)
FormatU8(i) ==
    IF i < 10 THEN <<DigitChars[i + 1]>>
    ELSE FormatU8(i \div 10) \o <<DigitChars[(i % 10) + 1]>>

(* --------------------------- key symbols ------------------------------ *)

\* The key symbols of the model. KEY_F stands for a symbol whose resolved
\* name carries the KEY_ prefix; Unnamed for one with no name in the table.
Keysyms == {"Tab", "a", "XF86AudioMute", "KEY_F", "Unnamed"}

\* xkb::keysym_get_name: the resolved name; a symbol without a name resolves
\* to its hexadecimal number.
keysym_get_name(keysym) ==
    CASE keysym = "Tab" -> <<"T","a","b">>
      [] keysym = "a" -> <<"a">>
      [] keysym = "XF86AudioMute" -> <<"X","F","8","6","A","u","d","i","o","M","u","t","e">>
      [] keysym = "KEY_F" -> <<"K","E","Y","_","F">>
      [] keysym = "Unnamed" -> <<"0","x","0","0","1","0","f","f","f","e">>

\* Keysym::name: the name when the symbol has one.
Keysym_name(keysym) ==
    IF keysym = "Unnamed" THEN None ELSE Some(keysym_get_name(keysym))

(* ----------------------- Modifiers, KeyBinding ------------------------ *)

\* Modifiers::new
Modifiers_new == [ctrl |-> FALSE, alt |-> FALSE, shift |-> FALSE, logo |-> FALSE]

ModifiersSet == [ctrl : BOOLEAN, alt : BOOLEAN, shift : BOOLEAN, logo : BOOLEAN]

\* Modifiers_to_string pushing Ctrl before Super.
Modifiers_to_string_ctrl_first(self) ==
    LET parts == (IF self.ctrl THEN <<<<"C","t","r","l">>>> ELSE <<>>)
              \o (IF self.logo THEN <<<<"S","u","p","e","r">>>> ELSE <<>>)
              \o (IF self.alt THEN <<<<"A","l","t">>>> ELSE <<>>)
              \o (IF self.shift THEN <<<<"S","h","i","f","t">>>> ELSE <<>>)
    IN  Join(parts, <<" ","+"," ">>)

\* impl fmt::Display for Modifiers
Modifiers_to_string(self) ==
    LET parts == (IF self.logo THEN <<<<"S","u","p","e","r">>>> ELSE <<>>)
              \o (IF self.ctrl THEN <<<<"C","t","r","l">>>> ELSE <<>>)
              \o (IF self.alt THEN <<<<"A","l","t">>>> ELSE <<>>)
              \o (IF self.shift THEN <<<<"S","h","i","f","t">>>> ELSE <<>>)
    IN  Join(parts, <<" ","+"," ">>)

\* impl fmt::Display for KeyBinding
KeyBinding_to_string(self) ==
    IF IsSome(self.keybind_display) THEN Unwrap(self.keybind_display)
    ELSE
        LET mod_str == Modifiers_to_string(self.modifiers)
            parts1 == IF mod_str # <<>> THEN <<mod_str>> ELSE <<>>
            parts2 ==
                IF IsSome(self.key)
                THEN LET key_name == keysym_get_name(Unwrap(self.key))
                     IN  parts1 \o <<UnwrapOr(StripPrefix(key_name, <<"K","E","Y","_">>), key_name)>>
                ELSE parts1
        IN  Join(parts2, <<" ","+"," ">>)

(* ------------------------------ actions ------------------------------- *)

FocusDirections == {"Down", "In", "Left", "Out", "Right", "Up"}
Directions == {"Down", "Left", "Right", "Up"}
Orientations == {"Horizontal", "Vertical"}
ResizeDirections == {"Inwards", "Outwards"}

\* The variants of Action that carry nothing.
UnitActions ==
    {"Close", "Disable", "LastWorkspace", "Maximize", "Fullscreen", "Minimize",
     "MoveToLastWorkspace", "SendToLastWorkspace", "MoveToNextOutput", "SendToNextOutput",
     "MoveToNextWorkspace", "SendToNextWorkspace", "MoveToPreviousWorkspace",
     "SendToPreviousWorkspace", "MoveToPreviousOutput", "SendToPreviousOutput", "NextOutput",
     "NextWorkspace", "PreviousOutput", "PreviousWorkspace", "SwapWindow", "ToggleOrientation",
     "ToggleStacking", "ToggleSticky", "ToggleTiling", "ToggleWindowFloating", "Debug",
     "MigrateWorkspaceToNextOutput", "MigrateWorkspaceToPreviousOutput", "Terminate", "ZoomIn",
     "ZoomOut"}

\* The variants of action::System.
SystemActions ==
    {"AppLibrary", "BrightnessDown", "BrightnessUp", "InputSourceSwitch", "HomeFolder",
     "KeyboardBrightnessDown", "KeyboardBrightnessUp", "Launcher", "LogOut", "LockScreen",
     "Mute", "MuteMic", "PlayPause", "PlayNext", "PlayPrev", "PowerOff", "Screenshot", "Suspend",
     "ScreenReader", "Terminal", "TouchpadToggle", "VolumeLower", "VolumeRaise", "WebBrowser",
     "WindowSwitcher", "WindowSwitcherPrevious", "WorkspaceOverview", "DisplayToggle"}

\* Command strings a Spawn action may carry.
SpawnCommands == {<<>>, <<"f","i","r","e","f","o","x">>, <<"C","l","o","s","e"," ","w","i","n","d","o","w">>}

\* Action: the closed enumeration matched by localize_action. Workspace
\* indexes are u8.
Actions ==
    {[tag |-> t] : t \in UnitActions}
    \cup {[tag |-> "Focus", dir |-> d] : d \in FocusDirections}
    \cup {[tag |-> t, dir |-> d] :
            t \in {"Move", "MoveToOutput", "SendToOutput", "SwitchOutput",
                   "MigrateWorkspaceToOutput"}, d \in Directions}
    \cup {[tag |-> "Orientation", dir |-> d] : d \in Orientations}
    \cup {[tag |-> "Resizing", dir |-> d] : d \in ResizeDirections}
    \cup {[tag |-> t, i |-> n] :
            t \in {"Workspace", "MoveToWorkspace", "SendToWorkspace"}, n \in 0..255}
    \cup {[tag |-> "System", system |-> s] : s \in SystemActions}
    \cup {[tag |-> "Spawn", cmd |-> c] : c \in SpawnCommands}

\* localize_action, the inner match on the system action.
localize_system(system) ==
    CASE system = "AppLibrary" ->
        <<"O","p","e","n"," ","t","h","e"," ","a","p","p"," ","l","i","b","r","a","r","y">>  \* "Open the app library"
      [] system = "BrightnessDown" ->
        <<"D","e","c","r","e","a","s","e"," ","d","i","s","p","l","a","y"," ","b","r","i","g","h","t","n","e","s","s">>  \* "Decrease display brightness"
      [] system = "BrightnessUp" ->
        <<"I","n","c","r","e","a","s","e"," ","d","i","s","p","l","a","y"," ","b","r","i","g","h","t","n","e","s","s">>  \* "Increase display brightness"
      [] system = "InputSourceSwitch" ->
        <<"S","w","i","t","c","h"," ","i","n","p","u","t"," ","s","o","u","r","c","e">>  \* "Switch input source"
      [] system = "HomeFolder" ->
        <<"O","p","e","n"," ","h","o","m","e"," ","f","o","l","d","e","r">>  \* "Open home folder"
      [] system = "KeyboardBrightnessDown" ->
        <<"D","e","c","r","e","a","s","e"," ","k","e","y","b","o","a","r","d"," ","b","r","i","g","h","t","n","e","s","s">>  \* "Decrease keyboard brightness"
      [] system = "KeyboardBrightnessUp" ->
        <<"I","n","c","r","e","a","s","e"," ","k","e","y","b","o","a","r","d"," ","b","r","i","g","h","t","n","e","s","s">>  \* "Increase keyboard brightness"
      [] system = "Launcher" ->
        <<"O","p","e","n"," ","t","h","e"," ","L","a","u","n","c","h","e","r">>  \* "Open the Launcher"
      [] system = "LogOut" ->
        <<"L","o","g"," ","O","u","t">>  \* "Log Out"
      [] system = "LockScreen" ->
        <<"L","o","c","k"," ","t","h","e"," ","s","c","r","e","e","n">>  \* "Lock the screen"
      [] system = "Mute" ->
        <<"M","u","t","e"," ","a","u","d","i","o"," ","o","u","t","p","u","t">>  \* "Mute audio output"
      [] system = "MuteMic" ->
        <<"M","u","t","e","s"," ","m","i","c","r","o","p","h","o","n","e"," ","i","n","p","u","t">>  \* "Mutes microphone input"
      [] system = "PlayPause" ->
        <<"P","l","a","y","/","p","a","u","s","e">>  \* "Play/pause"
      [] system = "PlayNext" ->
        <<"N","e","x","t"," ","t","r","a","c","k">>  \* "Next track"
      [] system = "PlayPrev" ->
        <<"P","r","e","v","i","o","u","s"," ","t","r","a","c","k">>  \* "Previous track"
      [] system = "PowerOff" ->
        <<"P","o","w","e","r"," ","o","f","f">>  \* "Power off"
      [] system = "Screenshot" ->
        <<"T","a","k","e"," ","a"," ","s","c","r","e","e","n","s","h","o","t">>  \* "Take a screenshot"
      [] system = "Suspend" ->
        <<"S","u","s","p","e","n","d">>  \* "Suspend"
      [] system = "ScreenReader" ->
        <<"T","o","g","g","l","e"," ","s","c","r","e","e","n"," ","r","e","a","d","e","r">>  \* "Toggle screen reader"
      [] system = "Terminal" ->
        <<"O","p","e","n"," ","a"," ","t","e","r","m","i","n","a","l">>  \* "Open a terminal"
      [] system = "TouchpadToggle" ->
        <<"T","o","g","g","l","e"," ","t","o","u","c","h","p","a","d">>  \* "Toggle touchpad"
      [] system = "VolumeLower" ->
        <<"D","e","c","r","e","a","s","e"," ","a","u","d","i","o"," ","o","u","t","p","u","t"," ","v","o","l","u","m","e">>  \* "Decrease audio output volume"
      [] system = "VolumeRaise" ->
        <<"I","n","c","r","e","a","s","e"," ","a","u","d","i","o"," ","o","u","t","p","u","t"," ","v","o","l","u","m","e">>  \* "Increase audio output volume"
      [] system = "WebBrowser" ->
        <<"O","p","e","n"," ","a"," ","w","e","b"," ","b","r","o","w","s","e","r">>  \* "Open a web browser"
      [] system = "WindowSwitcher" ->
        <<"S","w","i","t","c","h"," ","b","e","t","w","e","e","n"," ","o","p","e","n"," ","w","i","n","d","o","w","s">>  \* "Switch between open windows"
      [] system = "WindowSwitcherPrevious" ->
        <<"S","w","i","t","c","h"," ","b","e","t","w","e","e","n"," ","o","p","e","n"," ","w","i","n","d","o","w","s"," ","r","e","v","e","r","s","e","d">>  \* "Switch between open windows reversed"
      [] system = "WorkspaceOverview" ->
        <<"O","p","e","n"," ","t","h","e"," ","w","o","r","k","s","p","a","c","e"," ","o","v","e","r","v","i","e","w">>  \* "Open the workspace overview"
      [] system = "DisplayToggle" ->
        <<"T","o","g","g","l","e"," ","i","n","t","e","r","n","a","l"," ","d","i","s","p","l","a","y">>  \* "Toggle internal display"

\* localize_action
localize_action(action) ==
    CASE action.tag = "Close" ->
        <<"C","l","o","s","e"," ","w","i","n","d","o","w">>  \* "Close window"
      [] action.tag = "Disable" ->
        <<"D","i","s","a","b","l","e">>  \* "Disable"
      [] (action.tag = "Focus" /\ action.dir = "Down") ->
        <<"F","o","c","u","s"," ","d","o","w","n">>  \* "Focus down"
      [] (action.tag = "Focus" /\ action.dir = "In") ->
        <<"F","o","c","u","s"," ","i","n">>  \* "Focus in"
      [] (action.tag = "Focus" /\ action.dir = "Left") ->
        <<"F","o","c","u","s"," ","l","e","f","t">>  \* "Focus left"
      [] (action.tag = "Focus" /\ action.dir = "Out") ->
        <<"F","o","c","u","s"," ","o","u","t">>  \* "Focus out"
      [] (action.tag = "Focus" /\ action.dir = "Right") ->
        <<"F","o","c","u","s"," ","r","i","g","h","t">>  \* "Focus right"
      [] (action.tag = "Focus" /\ action.dir = "Up") ->
        <<"F","o","c","u","s"," ","u","p">>  \* "Focus up"
      [] action.tag = "Workspace" ->
        <<"W","o","r","k","s","p","a","c","e"," ">> \o FormatU8(action.i)
      [] action.tag = "LastWorkspace" ->
        <<"L","a","s","t"," ","w","o","r","k","s","p","a","c","e">>  \* "Last workspace"
      [] action.tag = "Maximize" ->
        <<"M","a","x","i","m","i","z","e"," ","w","i","n","d","o","w">>  \* "Maximize window"
      [] action.tag = "Fullscreen" ->
        <<"F","u","l","l","s","c","r","e","e","n"," ","w","i","n","d","o","w">>  \* "Fullscreen window"
      [] action.tag = "Minimize" ->
        <<"M","i","n","i","m","i","z","e"," ","w","i","n","d","o","w">>  \* "Minimize window"
      [] (action.tag = "Move" /\ action.dir = "Down") ->
        <<"M","o","v","e"," ","w","i","n","d","o","w"," ","d","o","w","n">>  \* "Move window down"
      [] (action.tag = "Move" /\ action.dir = "Right") ->
        <<"M","o","v","e"," ","w","i","n","d","o","w"," ","r","i","g","h","t">>  \* "Move window right"
      [] (action.tag = "Move" /\ action.dir = "Left") ->
        <<"M","o","v","e"," ","w","i","n","d","o","w"," ","l","e","f","t">>  \* "Move window left"
      [] (action.tag = "Move" /\ action.dir = "Up") ->
        <<"M","o","v","e"," ","w","i","n","d","o","w"," ","u","p">>  \* "Move window up"
      [] action.tag = "MoveToLastWorkspace" \/ action.tag = "SendToLastWorkspace" ->
        <<"M","o","v","e"," ","w","i","n","d","o","w"," ","t","o"," ","l","a","s","t"," ","w","o","r","k","s","p","a","c","e">>  \* "Move window to last workspace"
      [] action.tag = "MoveToNextOutput" \/ action.tag = "SendToNextOutput" ->
        <<"M","o","v","e"," ","w","i","n","d","o","w"," ","t","o"," ","n","e","x","t"," ","d","i","s","p","l","a","y">>  \* "Move window to next display"
      [] action.tag = "MoveToNextWorkspace" \/ action.tag = "SendToNextWorkspace" ->
        <<"M","o","v","e"," ","w","i","n","d","o","w"," ","t","o"," ","n","e","x","t"," ","w","o","r","k","s","p","a","c","e">>  \* "Move window to next workspace"
      [] action.tag = "MoveToPreviousWorkspace" \/ action.tag = "SendToPreviousWorkspace" ->
        <<"M","o","v","e"," ","w","i","n","d","o","w"," ","t","o"," ","p","r","e","v"," ","w","r","k","s","p","a","c","e">>  \* "Move window to prev wrkspace"
      [] (action.tag = "MoveToOutput" /\ action.dir = "Down") \/ (action.tag = "SendToOutput" /\ action.dir = "Down") ->
        <<"M","o","v","e"," ","w","i","n","d","o","w"," ","o","n","e"," ","m","o","n","i","t","o","r"," ","d","o","w","n">>  \* "Move window one monitor down"
      [] (action.tag = "MoveToOutput" /\ action.dir = "Left") \/ (action.tag = "SendToOutput" /\ action.dir = "Left") ->
        <<"M","o","v","e"," ","w","i","n","d","o","w"," ","o","n","e"," ","m","o","n","i","t","o","r"," ","l","e","f","t">>  \* "Move window one monitor left"
      [] (action.tag = "MoveToOutput" /\ action.dir = "Right") \/ (action.tag = "SendToOutput" /\ action.dir = "Right") ->
        <<"M","o","v","e"," ","w","i","n","d","o","w"," ","o","n","e"," ","m","o","n","i","t","o","r"," ","r","i","g","h","t">>  \* "Move window one monitor right"
      [] (action.tag = "MoveToOutput" /\ action.dir = "Up") \/ (action.tag = "SendToOutput" /\ action.dir = "Up") ->
        <<"M","o","v","e"," ","w","i","n","d","o","w"," ","o","n","e"," ","m","o","n","i","t","o","r"," ","u","p">>  \* "Move window one monitor up"
      [] action.tag = "MoveToPreviousOutput" \/ action.tag = "SendToPreviousOutput" ->
        <<"M","o","v","e"," ","w","i","n","d","o","w"," ","t","o"," ","p","r","e","v"," ","d","i","s","p","l","a","y">>  \* "Move window to prev display"
      [] action.tag = "MoveToWorkspace" \/ action.tag = "SendToWorkspace" ->
        <<"M","o","v","e"," ","w","i","n","d","o","w"," ","t","o"," ","w","o","r","k","s","p","a","c","e"," ">> \o FormatU8(action.i)
      [] action.tag = "NextOutput" ->
        <<"F","o","c","u","s"," ","n","e","x","t"," ","o","u","t","p","u","t">>  \* "Focus next output"
      [] action.tag = "NextWorkspace" ->
        <<"F","o","c","u","s"," ","n","e","x","t"," ","w","o","r","k","s","p","a","c","e">>  \* "Focus next workspace"
      [] (action.tag = "Orientation" /\ action.dir = "Horizontal") ->
        <<"S","e","t"," ","h","o","r","i","z","o","n","t","a","l"," ","o","r","i","e","n","t","a","t","i","o","n">>  \* "Set horizontal orientation"
      [] (action.tag = "Orientation" /\ action.dir = "Vertical") ->
        <<"S","e","t"," ","v","e","r","t","i","c","a","l"," ","o","r","i","e","n","t","a","t","i","o","n">>  \* "Set vertical orientation"
      [] action.tag = "PreviousOutput" ->
        <<"F","o","c","u","s"," ","p","r","e","v","i","o","u","s"," ","o","u","t","p","u","t">>  \* "Focus previous output"
      [] action.tag = "PreviousWorkspace" ->
        <<"F","o","c","u","s"," ","p","r","e","v","i","o","u","s"," ","w","o","r","k","s","p","a","c","e">>  \* "Focus previous workspace"
      [] (action.tag = "Resizing" /\ action.dir = "Inwards") ->
        <<"R","e","s","i","z","e"," ","w","i","n","d","o","w"," ","i","n","w","a","r","d","s">>  \* "Resize window inwards"
      [] (action.tag = "Resizing" /\ action.dir = "Outwards") ->
        <<"R","e","s","i","z","e"," ","w","i","n","d","o","w"," ","o","u","t","w","a","r","d","s">>  \* "Resize window outwards"
      [] action.tag = "SwapWindow" ->
        <<"S","w","a","p"," ","w","i","n","d","o","w">>  \* "Swap window"
      [] (action.tag = "SwitchOutput" /\ action.dir = "Down") ->
        <<"S","w","i","t","c","h"," ","t","o"," ","o","u","t","p","u","t"," ","d","o","w","n">>  \* "Switch to output down"
      [] (action.tag = "SwitchOutput" /\ action.dir = "Left") ->
        <<"S","w","i","t","c","h"," ","t","o"," ","o","u","t","p","u","t"," ","l","e","f","t">>  \* "Switch to output left"
      [] (action.tag = "SwitchOutput" /\ action.dir = "Right") ->
        <<"S","w","i","t","c","h"," ","t","o"," ","o","u","t","p","u","t"," ","r","i","g","h","t">>  \* "Switch to output right"
      [] (action.tag = "SwitchOutput" /\ action.dir = "Up") ->
        <<"S","w","i","t","c","h"," ","t","o"," ","o","u","t","p","u","t"," ","u","p">>  \* "Switch to output up"
      [] action.tag = "ToggleOrientation" ->
        <<"T","o","g","g","l","e"," ","o","r","i","e","n","t","a","t","i","o","n">>  \* "Toggle orientation"
      [] action.tag = "ToggleStacking" ->
        <<"T","o","g","g","l","e"," ","w","i","n","d","o","w"," ","s","t","a","c","k","i","n","g">>  \* "Toggle window stacking"
      [] action.tag = "ToggleSticky" ->
        <<"T","o","g","g","l","e"," ","s","t","i","c","k","y"," ","w","i","n","d","o","w">>  \* "Toggle sticky window"
      [] action.tag = "ToggleTiling" ->
        <<"T","o","g","g","l","e"," ","w","i","n","d","o","w"," ","t","i","l","i","n","g">>  \* "Toggle window tiling"
      [] action.tag = "ToggleWindowFloating" ->
        <<"T","o","g","g","l","e"," ","w","i","n","d","o","w"," ","f","l","o","a","t","i","n","g">>  \* "Toggle window floating"
      [] action.tag = "Debug" ->
        <<"D","e","b","u","g">>  \* "Debug"
      [] action.tag = "MigrateWorkspaceToNextOutput" ->
        <<"M","i","g","r","a","t","e"," ","w","o","r","k","s","p","a","c","e"," ","t","o"," ","n","e","x","t"," ","o","u","t","p","u","t">>  \* "Migrate workspace to next output"
      [] (action.tag = "MigrateWorkspaceToOutput" /\ action.dir = "Down") ->
        <<"M","i","g","r","a","t","e"," ","w","o","r","k","s","p","a","c","e"," ","d","o","w","n">>  \* "Migrate workspace down"
      [] (action.tag = "MigrateWorkspaceToOutput" /\ action.dir = "Left") ->
        <<"M","i","g","r","a","t","e"," ","w","o","r","k","s","p","a","c","e"," ","l","e","f","t">>  \* "Migrate workspace left"
      [] (action.tag = "MigrateWorkspaceToOutput" /\ action.dir = "Right") ->
        <<"M","i","g","r","a","t","e"," ","w","o","r","k","s","p","a","c","e"," ","r","i","g","h","t">>  \* "Migrate workspace right"
      [] (action.tag = "MigrateWorkspaceToOutput" /\ action.dir = "Up") ->
        <<"M","i","g","r","a","t","e"," ","w","o","r","k","s","p","a","c","e"," ","u","p">>  \* "Migrate workspace up"
      [] action.tag = "MigrateWorkspaceToPreviousOutput" ->
        <<"M","i","g","r","a","t","e"," ","w","o","r","k","s","p","a","c","e"," ","t","o"," ","p","r","e","v","i","o","u","s"," ","o","u","t","p","u","t">>  \* "Migrate workspace to previous output"
      [] action.tag = "Terminate" ->
        <<"T","e","r","m","i","n","a","t","e">>  \* "Terminate"
      [] action.tag = "ZoomIn" ->
        <<"Z","o","o","m"," ","i","n">>  \* "Zoom in"
      [] action.tag = "ZoomOut" ->
        <<"Z","o","o","m"," ","o","u","t">>  \* "Zoom out"
      [] action.tag = "System" -> localize_system(action.system)
      [] action.tag = "Spawn" -> action.cmd

\* The names #[derive(Debug)] prints for the variants of Action.
VariantName ==
    [Close |-> <<"C","l","o","s","e">>,
     Debug |-> <<"D","e","b","u","g">>,
     Disable |-> <<"D","i","s","a","b","l","e">>,
     Focus |-> <<"F","o","c","u","s">>,
     Fullscreen |-> <<"F","u","l","l","s","c","r","e","e","n">>,
     LastWorkspace |-> <<"L","a","s","t","W","o","r","k","s","p","a","c","e">>,
     Maximize |-> <<"M","a","x","i","m","i","z","e">>,
     MigrateWorkspaceToNextOutput |-> <<"M","i","g","r","a","t","e","W","o","r","k","s","p","a","c","e","T","o","N","e","x","t","O","u","t","p","u","t">>,
     MigrateWorkspaceToOutput |-> <<"M","i","g","r","a","t","e","W","o","r","k","s","p","a","c","e","T","o","O","u","t","p","u","t">>,
     MigrateWorkspaceToPreviousOutput |-> <<"M","i","g","r","a","t","e","W","o","r","k","s","p","a","c","e","T","o","P","r","e","v","i","o","u","s","O","u","t","p","u","t">>,
     Minimize |-> <<"M","i","n","i","m","i","z","e">>,
     Move |-> <<"M","o","v","e">>,
     MoveToLastWorkspace |-> <<"M","o","v","e","T","o","L","a","s","t","W","o","r","k","s","p","a","c","e">>,
     MoveToNextOutput |-> <<"M","o","v","e","T","o","N","e","x","t","O","u","t","p","u","t">>,
     MoveToNextWorkspace |-> <<"M","o","v","e","T","o","N","e","x","t","W","o","r","k","s","p","a","c","e">>,
     MoveToOutput |-> <<"M","o","v","e","T","o","O","u","t","p","u","t">>,
     MoveToPreviousOutput |-> <<"M","o","v","e","T","o","P","r","e","v","i","o","u","s","O","u","t","p","u","t">>,
     MoveToPreviousWorkspace |-> <<"M","o","v","e","T","o","P","r","e","v","i","o","u","s","W","o","r","k","s","p","a","c","e">>,
     MoveToWorkspace |-> <<"M","o","v","e","T","o","W","o","r","k","s","p","a","c","e">>,
     NextOutput |-> <<"N","e","x","t","O","u","t","p","u","t">>,
     NextWorkspace |-> <<"N","e","x","t","W","o","r","k","s","p","a","c","e">>,
     Orientation |-> <<"O","r","i","e","n","t","a","t","i","o","n">>,
     PreviousOutput |-> <<"P","r","e","v","i","o","u","s","O","u","t","p","u","t">>,
     PreviousWorkspace |-> <<"P","r","e","v","i","o","u","s","W","o","r","k","s","p","a","c","e">>,
     Resizing |-> <<"R","e","s","i","z","i","n","g">>,
     SendToLastWorkspace |-> <<"S","e","n","d","T","o","L","a","s","t","W","o","r","k","s","p","a","c","e">>,
     SendToNextOutput |-> <<"S","e","n","d","T","o","N","e","x","t","O","u","t","p","u","t">>,
     SendToNextWorkspace |-> <<"S","e","n","d","T","o","N","e","x","t","W","o","r","k","s","p","a","c","e">>,
     SendToOutput |-> <<"S","e","n","d","T","o","O","u","t","p","u","t">>,
     SendToPreviousOutput |-> <<"S","e","n","d","T","o","P","r","e","v","i","o","u","s","O","u","t","p","u","t">>,
     SendToPreviousWorkspace |-> <<"S","e","n","d","T","o","P","r","e","v","i","o","u","s","W","o","r","k","s","p","a","c","e">>,
     SendToWorkspace |-> <<"S","e","n","d","T","o","W","o","r","k","s","p","a","c","e">>,
     Spawn |-> <<"S","p","a","w","n">>,
     SwapWindow |-> <<"S","w","a","p","W","i","n","d","o","w">>,
     SwitchOutput |-> <<"S","w","i","t","c","h","O","u","t","p","u","t">>,
     System |-> <<"S","y","s","t","e","m">>,
     Terminate |-> <<"T","e","r","m","i","n","a","t","e">>,
     ToggleOrientation |-> <<"T","o","g","g","l","e","O","r","i","e","n","t","a","t","i","o","n">>,
     ToggleStacking |-> <<"T","o","g","g","l","e","S","t","a","c","k","i","n","g">>,
     ToggleSticky |-> <<"T","o","g","g","l","e","S","t","i","c","k","y">>,
     ToggleTiling |-> <<"T","o","g","g","l","e","T","i","l","i","n","g">>,
     ToggleWindowFloating |-> <<"T","o","g","g","l","e","W","i","n","d","o","w","F","l","o","a","t","i","n","g">>,
     Workspace |-> <<"W","o","r","k","s","p","a","c","e">>,
     ZoomIn |-> <<"Z","o","o","m","I","n">>,
     ZoomOut |-> <<"Z","o","o","m","O","u","t">>]

\* The names #[derive(Debug)] prints for directions, orientations and
\* system actions.
UnitVariantName ==
    [AppLibrary |-> <<"A","p","p","L","i","b","r","a","r","y">>,
     BrightnessDown |-> <<"B","r","i","g","h","t","n","e","s","s","D","o","w","n">>,
     BrightnessUp |-> <<"B","r","i","g","h","t","n","e","s","s","U","p">>,
     DisplayToggle |-> <<"D","i","s","p","l","a","y","T","o","g","g","l","e">>,
     Down |-> <<"D","o","w","n">>,
     HomeFolder |-> <<"H","o","m","e","F","o","l","d","e","r">>,
     Horizontal |-> <<"H","o","r","i","z","o","n","t","a","l">>,
     In |-> <<"I","n">>,
     InputSourceSwitch |-> <<"I","n","p","u","t","S","o","u","r","c","e","S","w","i","t","c","h">>,
     Inwards |-> <<"I","n","w","a","r","d","s">>,
     KeyboardBrightnessDown |-> <<"K","e","y","b","o","a","r","d","B","r","i","g","h","t","n","e","s","s","D","o","w","n">>,
     KeyboardBrightnessUp |-> <<"K","e","y","b","o","a","r","d","B","r","i","g","h","t","n","e","s","s","U","p">>,
     Launcher |-> <<"L","a","u","n","c","h","e","r">>,
     Left |-> <<"L","e","f","t">>,
     LockScreen |-> <<"L","o","c","k","S","c","r","e","e","n">>,
     LogOut |-> <<"L","o","g","O","u","t">>,
     Mute |-> <<"M","u","t","e">>,
     MuteMic |-> <<"M","u","t","e","M","i","c">>,
     Out |-> <<"O","u","t">>,
     Outwards |-> <<"O","u","t","w","a","r","d","s">>,
     PlayNext |-> <<"P","l","a","y","N","e","x","t">>,
     PlayPause |-> <<"P","l","a","y","P","a","u","s","e">>,
     PlayPrev |-> <<"P","l","a","y","P","r","e","v">>,
     PowerOff |-> <<"P","o","w","e","r","O","f","f">>,
     Right |-> <<"R","i","g","h","t">>,
     ScreenReader |-> <<"S","c","r","e","e","n","R","e","a","d","e","r">>,
     Screenshot |-> <<"S","c","r","e","e","n","s","h","o","t">>,
     Suspend |-> <<"S","u","s","p","e","n","d">>,
     Terminal |-> <<"T","e","r","m","i","n","a","l">>,
     TouchpadToggle |-> <<"T","o","u","c","h","p","a","d","T","o","g","g","l","e">>,
     Up |-> <<"U","p">>,
     Vertical |-> <<"V","e","r","t","i","c","a","l">>,
     VolumeLower |-> <<"V","o","l","u","m","e","L","o","w","e","r">>,
     VolumeRaise |-> <<"V","o","l","u","m","e","R","a","i","s","e">>,
     WebBrowser |-> <<"W","e","b","B","r","o","w","s","e","r">>,
     WindowSwitcher |-> <<"W","i","n","d","o","w","S","w","i","t","c","h","e","r">>,
     WindowSwitcherPrevious |-> <<"W","i","n","d","o","w","S","w","i","t","c","h","e","r","P","r","e","v","i","o","u","s">>,
     WorkspaceOverview |-> <<"W","o","r","k","s","p","a","c","e","O","v","e","r","v","i","e","w">>]

\* format!("{:?}", action)
DebugAction(action) ==
    IF "dir" \in DOMAIN action
    THEN VariantName[action.tag] \o <<"(">> \o UnitVariantName[action.dir] \o <<")">>
    ELSE IF "i" \in DOMAIN action
    THEN VariantName[action.tag] \o <<"(">> \o FormatU8(action.i) \o <<")">>
    ELSE VariantName[action.tag]

(* ----------------------- load_cosmic_shortcuts ------------------------ *)

\* The provider's map is a set of entries [binding, action], a binding being
\* [modifiers, key, description]; no two entries share modifiers and key.

\* Limit of keybinds joined into one display string: take(2).
MaxKeybinds == 2

\* Every order in which the elements of a finite set can be met: the
\* iteration order of a HashMap is not fixed.
RECURSIVE IterationOrders(_)
IterationOrders(S) ==
    IF S = {} THEN {<<>>}
    ELSE UNION {{<<x>> \o rest : rest \in IterationOrders(S \ {x})} : x \in S}

\* IsDisabled with the test left out: no pair is skipped.
IsDisabled_never(action) == FALSE

\* if let cs::Action::Disable = action { continue; }
IsDisabled(action) == action.tag = "Disable"

\* DescriptionOf ignoring the explicit description.
DescriptionOf_localized(binding, action) == localize_action(action)

\* The description of an accepted binding.
DescriptionOf(binding, action) ==
    IF IsSome(binding.description) THEN Unwrap(binding.description)
    ELSE localize_action(action)

\* The command string of an accepted binding.
CommandOf(action) ==
    IF action.tag = "Spawn" THEN action.cmd
    ELSE IF action.tag = "System" THEN UnitVariantName[action.system]
    ELSE DebugAction(action)

\* The body of the first loop: what one (binding, action) pair pushes to out.
NormalizeEntry(entry) ==
    LET binding == entry.binding
        action == entry.action
        m == [Modifiers_new EXCEPT !.ctrl = binding.modifiers.ctrl,
                                   !.alt = binding.modifiers.alt,
                                   !.shift = binding.modifiers.shift,
                                   !.logo = binding.modifiers.logo]
    IN  IF IsDisabled(action) THEN <<>>
        ELSE <<[modifiers |-> m,
                key |-> binding.key,
                description |-> DescriptionOf(binding, action),
                _command |-> CommandOf(action),
                keybind_display |-> None]>>

\* The first loop, over the pairs in the order the map yields them.
RECURSIVE NormalizeAll(_)
NormalizeAll(entries) ==
    IF entries = <<>> THEN <<>>
    ELSE NormalizeEntry(Head(entries)) \o NormalizeAll(Tail(entries))

Descriptions(out) == {out[i].description : i \in DOMAIN out}

\* grouped: each description with its bindings in the order they were pushed.
GroupByDescription(out) ==
    [d \in Descriptions(out) |-> SelectSeq(out, LAMBDA b : b.description = d)]

\* The closure mapped over the first keybinds of a group.
FormatKeybind(b) ==
    LET mod_str == Modifiers_to_string(b.modifiers)
        parts1 == IF mod_str # <<>> THEN <<mod_str>> ELSE <<>>
        parts2 ==
            IF IsSome(b.key)
            THEN LET key_name == keysym_get_name(Unwrap(b.key))
                 IN  parts1 \o <<UnwrapOr(StripPrefix(key_name, <<"K","E","Y","_">>), key_name)>>
            ELSE parts1
    IN  Join(parts2, <<" ","+"," ">>)

\* Take without the limit.
Take_all(seq, n) == seq

\* Iterator::take
Take(seq, n) == SubSeq(seq, 1, IF Len(seq) < n THEN Len(seq) ELSE n)

\* MergeGroup pushing every binding of the group.
MergeGroup_every(bindings) == bindings

\* The body of the second loop: what one group pushes to out.
MergeGroup(bindings) ==
    IF bindings = <<>> THEN <<>>
    ELSE LET merged_binding == bindings[1]
             first == Take(bindings, MaxKeybinds)
             concatenated_keybind ==
                 Join([i \in DOMAIN first |-> FormatKeybind(first[i])], <<" ","/"," ">>)
         IN  IF Len(bindings) > 1
             THEN <<[merged_binding EXCEPT
                        !.keybind_display = Some(concatenated_keybind)]>>
             ELSE <<merged_binding>>

\* The second loop, over the groups in the order the HashMap yields them.
RECURSIVE MergeAll(_, _)
MergeAll(grouped, group_order) ==
    IF group_order = <<>> THEN <<>>
    ELSE MergeGroup(grouped[Head(group_order)]) \o MergeAll(grouped, Tail(group_order))

\* KeepsBinding consulting the merged display too: a record is also dropped
\* when a key named XF86.. shows in its keybind_display.
KeepsBinding_any_member(binding) ==
    /\ ~(/\ IsSome(binding.key)
         /\ LET x == Keysym_name(Unwrap(binding.key))
            IN  IsSome(x) /\ StartsWith(Unwrap(x), <<"X","F","8","6">>))
    /\ ~(/\ IsSome(binding.keybind_display)
         /\ \E i \in 1..(Len(Unwrap(binding.keybind_display)) - 3) :
                SubSeq(Unwrap(binding.keybind_display), i, i + 3) = <<"X","F","8","6">>)

\* The predicate of out.retain.
KeepsBinding(binding) ==
    ~(/\ IsSome(binding.key)
      /\ LET x == Keysym_name(Unwrap(binding.key))
         IN  IsSome(x) /\ StartsWith(Unwrap(x), <<"X","F","8","6">>))

\* out.retain(..)
Retain(out) == SelectSeq(out, KeepsBinding)

\* SortByDescription with the sort left out.
SortByDescription_unsorted(out) == out

\* Where a stable sort puts x into a sorted list: before the first element
\* that compares greater.
RECURSIVE InsertByDescription(_, _)
InsertByDescription(sorted, x) ==
    IF sorted = <<>> THEN <<x>>
    ELSE IF StrCmp(x.description, Head(sorted).description) < 0 THEN <<x>> \o sorted
    ELSE <<Head(sorted)>> \o InsertByDescription(Tail(sorted), x)

\* out.sort_by(|a, b| a.description.cmp(&b.description)): a stable sort.
RECURSIVE SortByDescription(_)
SortByDescription(out) ==
    IF out = <<>> THEN <<>>
    ELSE InsertByDescription(SortByDescription(SubSeq(out, 1, Len(out) - 1)),
                             out[Len(out)])

\* One run of the function body after the context was opened, for one
\* iteration order of the provider's map and one of grouped.
LoadRun(entries, group_order) ==
    LET out1 == NormalizeAll(entries)
        out2 == MergeAll(GroupByDescription(out1), group_order)
    IN  [ok |-> TRUE, cs_shortcuts |-> entries, normalized |-> out1,
         merged |-> out2, value |-> SortByDescription(Retain(out2))]

\* load_cosmic_shortcuts: every result the call can have. The context either
\* opens or the call returns the error.
load_cosmic_shortcuts(context_opens, provider_map) ==
    IF ~context_opens
    THEN {[ok |-> FALSE, cs_shortcuts |-> <<>>, normalized |-> <<>>,
           merged |-> <<>>, value |-> <<>>]}
    ELSE UNION {{LoadRun(entries, group_order) :
                    group_order \in IterationOrders(Descriptions(NormalizeAll(entries)))} :
                entries \in IterationOrders(provider_map)}

(* ----------------------------- the state ------------------------------ *)

VARIABLES
    pc,             \* "start" before AppModel::init, then "running" (or "panicked")
    snapshot,       \* the provider's map of (binding, action) pairs
    context_opens,  \* whether cs::context() succeeds
    load_result,    \* "none", or the last load's "Ok" / "Err"
    cs_shortcuts,   \* the pairs of the last load, in the order the map yielded them
    normalized,     \* out after the first loop of the last load
    merged,         \* out after the second loop of the last load
    shortcuts,      \* AppModel.shortcuts
    popup,          \* AppModel.popup
    next_id,        \* the next id Id::unique() returns
    search_query,   \* AppModel.search_query
    config,         \* AppModel.config
    last_message,   \* the message update handled last, if any
    changes,        \* how often the provider's settings changed
    action_in,      \* the action handed to localize_action
    description_out \* the description it returned

vars == <<pc, snapshot, context_opens, load_result, cs_shortcuts, normalized, merged,
          shortcuts, popup, next_id, search_query, config, last_message, changes,
          action_in, description_out>>

load_vars == <<load_result, cs_shortcuts, normalized, merged, shortcuts>>
app_vars == <<popup, next_id, search_query, config, last_message>>
describe_vars == <<action_in, description_out>>

(* ------------------------------- bounds ------------------------------- *)

\* The most pairs in a snapshot drawn from PoolBindings.
MaxBindings == 3

Mods(logo, ctrl, alt, shift) == [ctrl |-> ctrl, alt |-> alt, shift |-> shift, logo |-> logo]

\* The bindings snapshots of several pairs are drawn from.
PoolBindings ==
    {[modifiers |-> Mods(TRUE, FALSE, FALSE, FALSE), key |-> Some("Tab")],
     [modifiers |-> Mods(FALSE, FALSE, FALSE, FALSE), key |-> Some("XF86AudioMute")],
     [modifiers |-> Mods(FALSE, TRUE, TRUE, FALSE), key |-> None],
     [modifiers |-> Mods(TRUE, FALSE, FALSE, TRUE), key |-> Some("a")]}

\* Every binding over the model's key symbols.
AllBindings ==
    {[modifiers |-> m, key |-> k] :
        m \in ModifiersSet, k \in {None} \cup {Some(x) : x \in Keysyms}}

\* What a binding is paired with: an explicit description or none, and an action.
PoolValues ==
    {[description |-> None, action |-> [tag |-> "Close"]],
     [description |-> None, action |-> [tag |-> "ZoomIn"]],
     [description |-> None, action |-> [tag |-> "Disable"]],
     [description |-> Some(<<"C","l","o","s","e"," ","w","i","n","d","o","w">>), action |-> [tag |-> "Disable"]],
     [description |-> Some(<<"C","l","o","s","e"," ","w","i","n","d","o","w">>), action |-> [tag |-> "Spawn", cmd |-> <<"f","i","r","e","f","o","x">>]],
     [description |-> None, action |-> [tag |-> "Spawn", cmd |-> <<"f","i","r","e","f","o","x">>]],
     [description |-> None, action |-> [tag |-> "MoveToNextWorkspace"]],
     [description |-> None, action |-> [tag |-> "SendToNextWorkspace"]],
     [description |-> None, action |-> [tag |-> "Maximize"]],
     [description |-> None, action |-> [tag |-> "Spawn", cmd |-> <<>>]]}

Entry(b, v) ==
    [binding |-> [modifiers |-> b.modifiers, key |-> b.key, description |-> v.description],
     action |-> v.action]

\* The subsets of S with at most n elements.
RECURSIVE SubsetsUpTo(_, _)
SubsetsUpTo(S, n) ==
    IF n = 0 THEN {{}}
    ELSE LET smaller == SubsetsUpTo(S, n - 1)
         IN  smaller \cup {D \cup {x} : D \in smaller, x \in S}

SnapshotsOver(bindings, max) ==
    UNION {{{Entry(b, f[b]) : b \in D} : f \in [D -> PoolValues]} :
            D \in SubsetsUpTo(bindings, max)}

\* The snapshots of the model: up to MaxBindings pairs over PoolBindings, and
\* every single pair over AllBindings.
Snapshots == SnapshotsOver(PoolBindings, MaxBindings) \cup SnapshotsOver(AllBindings, 1)

(* --------------------------- AppModel::init --------------------------- *)

\* UnwrapOrElseEmpty as unwrap(): the error panics.
UnwrapOrElseEmpty_unwrap(result) ==
    IF result.ok THEN [pc |-> "running", shortcuts |-> result.value]
    ELSE [pc |-> "panicked", shortcuts |-> <<>>]

\* load_cosmic_shortcuts().unwrap_or_else(|e| { log::error!(..); Vec::new() })
UnwrapOrElseEmpty(result) ==
    IF result.ok THEN [pc |-> "running", shortcuts |-> result.value]
    ELSE [pc |-> "running", shortcuts |-> <<>>]

AppInit ==
    /\ pc = "start"
    /\ \E result \in load_cosmic_shortcuts(context_opens, snapshot) :
        /\ load_result' = IF result.ok THEN "Ok" ELSE "Err"
        /\ cs_shortcuts' = result.cs_shortcuts
        /\ normalized' = result.normalized
        /\ merged' = result.merged
        /\ pc' = UnwrapOrElseEmpty(result).pc
        /\ shortcuts' = UnwrapOrElseEmpty(result).shortcuts
    /\ popup' = None
    /\ search_query' = <<>>
    /\ UNCHANGED <<snapshot, context_opens, next_id, config, last_message, changes,
                   describe_vars>>

\* The state before AppModel::init, but for the inputs.
InitCommon ==
    /\ pc = "start"
    /\ load_result = "none"
    /\ cs_shortcuts = <<>>
    /\ normalized = <<>>
    /\ merged = <<>>
    /\ shortcuts = <<>>
    /\ popup = None
    /\ next_id = 1
    /\ search_query = <<>>
    /\ config = "default"
    /\ last_message = None
    /\ changes = 0
    /\ description_out = None

Init ==
    /\ InitCommon
    /\ context_opens \in BOOLEAN
    /\ snapshot \in Snapshots
    /\ action_in = None

Next == AppInit

Spec == Init /\ [][Next]_vars

(* -------------------------- AppModel::update -------------------------- *)

\* Popups opened in one run of the model.
MaxPopups == 2
\* Changes of the provider's settings in one run of the model.
MaxChanges == 2

Configs == {"default", "changed"}
Queries == {<<>>, <<"z","o","o","m">>}

\* The pairs the provider's map holds in the runs of the application.
AppEntries ==
    {[binding |-> [modifiers |-> Mods(TRUE, FALSE, FALSE, FALSE), key |-> Some("Tab"),
                   description |-> None],
      action |-> [tag |-> "Close"]],
     [binding |-> [modifiers |-> Mods(FALSE, TRUE, TRUE, FALSE), key |-> None,
                   description |-> None],
      action |-> [tag |-> "ZoomIn"]]}

\* The AppModel as update sees it.
Self == [popup |-> popup, config |-> config, shortcuts |-> shortcuts,
         search_query |-> search_query]

\* update reloading the shortcuts on UpdateConfig.
update_reloading(self, message, new_id) ==
    CASE message.tag = "SubscriptionChannel" -> self
      [] message.tag = "UpdateConfig" ->
            [self EXCEPT !.config = message.config,
                         !.shortcuts =
                            UnwrapOrElseEmpty(
                                CHOOSE r \in load_cosmic_shortcuts(context_opens, snapshot) :
                                    TRUE).shortcuts]
      [] message.tag = "SearchInput" -> [self EXCEPT !.search_query = message.query]
      [] message.tag = "TogglePopup" ->
            IF IsSome(self.popup) THEN [self EXCEPT !.popup = None]
            ELSE [self EXCEPT !.popup = Some(new_id)]
      [] message.tag = "PopupClosed" ->
            IF self.popup = Some(message.id) THEN [self EXCEPT !.popup = None]
            ELSE self

\* update with PopupClosed clearing the popup whatever the id.
update_closing_any(self, message, new_id) ==
    CASE message.tag = "SubscriptionChannel" -> self
      [] message.tag = "UpdateConfig" -> [self EXCEPT !.config = message.config]
      [] message.tag = "SearchInput" -> [self EXCEPT !.search_query = message.query]
      [] message.tag = "TogglePopup" ->
            IF IsSome(self.popup) THEN [self EXCEPT !.popup = None]
            ELSE [self EXCEPT !.popup = Some(new_id)]
      [] message.tag = "PopupClosed" -> [self EXCEPT !.popup = None]

\* AppModel::update: the model after the message; new_id is what Id::unique()
\* returns when it is called.
update(self, message, new_id) ==
    CASE message.tag = "SubscriptionChannel" -> self
      [] message.tag = "UpdateConfig" -> [self EXCEPT !.config = message.config]
      [] message.tag = "SearchInput" -> [self EXCEPT !.search_query = message.query]
      [] message.tag = "TogglePopup" ->
            IF IsSome(self.popup) THEN [self EXCEPT !.popup = None]
            ELSE [self EXCEPT !.popup = Some(new_id)]
      [] message.tag = "PopupClosed" ->
            IF self.popup = Some(message.id) THEN [self EXCEPT !.popup = None]
            ELSE self

\* The runtime hands one message to update.
Handle(message) ==
    /\ pc = "running"
    /\ LET after == update(Self, message, next_id)
       IN  /\ popup' = after.popup
           /\ config' = after.config
           /\ shortcuts' = after.shortcuts
           /\ search_query' = after.search_query
    /\ next_id' = IF message.tag = "TogglePopup" /\ popup = None
                  THEN next_id + 1 ELSE next_id
    /\ last_message' = Some(message)
    /\ UNCHANGED <<pc, snapshot, context_opens, load_result, cs_shortcuts, normalized,
                   merged, changes, describe_vars>>

\* The channel subscription's one message.
SubscriptionChannel ==
    /\ pc = "running"
    /\ Handle([tag |-> "SubscriptionChannel"])

\* watch_config of the applet's own configuration reports an update.
UpdateConfig ==
    /\ pc = "running"
    /\ \E c \in Configs : Handle([tag |-> "UpdateConfig", config |-> c])

\* The search box's on_input.
SearchInput ==
    /\ pc = "running"
    /\ \E q \in Queries : Handle([tag |-> "SearchInput", query |-> q])

\* The panel button's on_press.
TogglePopup ==
    /\ IsSome(popup) \/ next_id <= MaxPopups
    /\ Handle([tag |-> "TogglePopup"])

\* on_close_requested(id) for a popup opened earlier, then update.
PopupClosed ==
    /\ pc = "running"
    /\ \E id \in 1..(next_id - 1) : Handle([tag |-> "PopupClosed", id |-> id])

Update == SubscriptionChannel \/ UpdateConfig \/ SearchInput \/ TogglePopup \/ PopupClosed

\* The provider's settings change while the applet runs.
SettingsChange ==
    /\ changes < MaxChanges
    /\ changes' = changes + 1
    /\ snapshot' \in (SUBSET AppEntries) \ {snapshot}
    /\ UNCHANGED <<pc, context_opens, load_vars, app_vars, describe_vars>>

AppInitial ==
    /\ InitCommon
    /\ context_opens \in BOOLEAN
    /\ snapshot \in SUBSET AppEntries
    /\ action_in = None

AppNext ==
    \/ AppInit
    \/ SubscriptionChannel
    \/ UpdateConfig
    \/ SearchInput
    \/ TogglePopup
    \/ PopupClosed
    \/ SettingsChange

\* The runtime calls init and hands every message to update.
AppSpec == AppInitial /\ [][AppNext]_vars /\ WF_vars(AppInit) /\ WF_vars(Update)

(* --------------------------- localize_action -------------------------- *)

DescribeInit ==
    /\ InitCommon
    /\ context_opens = TRUE
    /\ snapshot = {}
    /\ action_in \in {Some(a) : a \in Actions}

\* One call of localize_action.
Describe ==
    /\ description_out = None
    /\ description_out' = Some(localize_action(Unwrap(action_in)))
    /\ UNCHANGED <<pc, snapshot, context_opens, load_vars, app_vars, changes, action_in>>

DescribeNext == Describe

DescribeSpec == DescribeInit /\ [][DescribeNext]_vars

(* ------------------------ the claims' vocabulary ---------------------- *)

\* A load has returned Ok and AppModel::init has stored its list.
Loaded == pc = "running" /\ load_result = "Ok"

Range(seq) == {seq[i] : i \in DOMAIN seq}

\* The positions of the pairs of the last load whose action is not Disable.
EnabledAt == {i \in DOMAIN cs_shortcuts : cs_shortcuts[i].action.tag # "Disable"}

\* The description the pair at position i resolves to.
DescriptionAt(i) == DescriptionOf(cs_shortcuts[i].binding, cs_shortcuts[i].action)

\* The positions, in encounter order, of the enabled pairs that resolve to
\* description d: the members of d's group.
Members(d) ==
    SelectSeq([i \in DOMAIN cs_shortcuts |-> i],
              LAMBDA i : i \in EnabledAt /\ DescriptionAt(i) = d)

\* A key name without a leading KEY_.
WithoutKeyPrefix(name) ==
    IF Len(name) >= 4 /\ name[1] = "K" /\ name[2] = "E" /\ name[3] = "Y" /\ name[4] = "_"
    THEN [i \in 1..(Len(name) - 4) |-> name[i + 4]]
    ELSE name

\* The modifier+key format: the asserted modifiers in the order Super, Ctrl,
\* Alt, Shift, then the key name if there is a key, joined by " + ".
ExpectedDisplay(modifiers, key) ==
    LET tokens == <<[on |-> modifiers.logo, text |-> <<"S","u","p","e","r">>],
                    [on |-> modifiers.ctrl, text |-> <<"C","t","r","l">>],
                    [on |-> modifiers.alt, text |-> <<"A","l","t">>],
                    [on |-> modifiers.shift, text |-> <<"S","h","i","f","t">>],
                    [on |-> key # None,
                     text |-> IF key # None THEN WithoutKeyPrefix(keysym_get_name(key[1]))
                              ELSE <<>>]>>
        kept == SelectSeq(tokens, LAMBDA t : t.on)
    IN  Join([i \in DOMAIN kept |-> kept[i].text], <<" ","+"," ">>)

\* The modifier+key format of the pair at position i.
DisplayAt(i) ==
    ExpectedDisplay(cs_shortcuts[i].binding.modifiers, cs_shortcuts[i].binding.key)

\* sub occurs in s.
Contains(s, sub) ==
    \E i \in 1..(Len(s) - Len(sub) + 1) : SubSeq(s, i, i + Len(sub) - 1) = sub

\* a <= b byte-wise: a is a prefix of b, or at the first difference a has
\* the smaller byte.
BytewiseLeq(a, b) ==
    \/ Len(a) <= Len(b) /\ SubSeq(b, 1, Len(a)) = a
    \/ \E k \in 1..(IF Len(a) < Len(b) THEN Len(a) ELSE Len(b)) :
        /\ SubSeq(a, 1, k - 1) = SubSeq(b, 1, k - 1)
        /\ Ord[a[k]] < Ord[b[k]]

\* The key has a name, and the name starts with XF86.
KeyIsXF86(key) ==
    /\ key # None
    /\ Keysym_name(key[1]) # None
    /\ LET name == Keysym_name(key[1])[1]
       IN  Len(name) >= 4 /\ <<name[1], name[2], name[3], name[4]>> = <<"X","F","8","6">>

\* What the single-binding formatter prints for the pair at position i.
SingleFormatAt(i) ==
    KeyBinding_to_string([modifiers |-> cs_shortcuts[i].binding.modifiers,
                          key |-> cs_shortcuts[i].binding.key,
                          description |-> DescriptionAt(i),
                          _command |-> <<>>,
                          keybind_display |-> None])

\* Record r represents the group of description d: it has the modifiers,
\* key, description and command of the first member, and its keybind_display
\* is the " / "-join of the first two members' single-binding formats.
RepresentsGroup(r, d) ==
    LET first == Members(d)[1]
        second == Members(d)[2]
    IN  /\ r.description = d
        /\ r.modifiers = cs_shortcuts[first].binding.modifiers
        /\ r.key = cs_shortcuts[first].binding.key
        /\ r._command = CommandOf(cs_shortcuts[first].action)
        /\ r.keybind_display = Some(SingleFormatAt(first) \o <<" ","/"," ">> \o SingleFormatAt(second))
        /\ r.keybind_display = Some(DisplayAt(first) \o <<" ","/"," ">> \o DisplayAt(second))

\* The descriptions with two or more members.
SharedDescriptions == {d \in {DescriptionAt(i) : i \in EnabledAt} : Len(Members(d)) >= 2}

\* part is one of the " / "-separated components of s.
IsComponent(part, s) ==
    \/ s = part
    \/ Len(s) >= Len(part) + 3 /\ SubSeq(s, 1, Len(part) + 3) = part \o <<" ","/"," ">>
    \/ Len(s) >= Len(part) + 3 /\ SubSeq(s, Len(s) - Len(part) - 2, Len(s)) = <<" ","/"," ">> \o part

\* The lists AppModel::init can store for a snapshot.
ListsOf(snap) ==
    {UnwrapOrElseEmpty(r).shortcuts : r \in load_cosmic_shortcuts(context_opens, snap)}

\* The value of a sequence of decimal digits.
RECURSIVE DecimalValue(_)
DecimalValue(digits) ==
    IF digits = <<>> THEN 0
    ELSE 10 * DecimalValue(SubSeq(digits, 1, Len(digits) - 1))
         + (CHOOSE v \in 0..9 : DigitChars[v + 1] = digits[Len(digits)])

\* text is the decimal numeral of n: digits only, no leading zero.
IsDecimalOf(text, n) ==
    /\ text # <<>>
    /\ \A k \in DOMAIN text : text[k] \in Range(DigitChars)
    /\ Len(text) > 1 => text[1] # "0"
    /\ DecimalValue(text) = n

(* ------------------------------- claims ------------------------------- *)

\* C1. Disabled exclusion: a pair whose action is Disable gives no record
\* of the returned list, whatever its modifiers, key or explicit description,
\* and every keybind_display is the " / "-join of the formats of two enabled
\* pairs of that description, so a disabled pair contributes to none.
C1_DisabledExcluded ==
    Loaded =>
        /\ \A i \in DOMAIN cs_shortcuts :
            cs_shortcuts[i].action.tag = "Disable" =>
                \A j \in DOMAIN shortcuts :
                    ~(/\ shortcuts[j].modifiers = cs_shortcuts[i].binding.modifiers
                      /\ shortcuts[j].key = cs_shortcuts[i].binding.key)
        /\ \A j \in DOMAIN shortcuts :
            shortcuts[j].keybind_display # None =>
                \E a, b \in EnabledAt :
                    /\ a < b
                    /\ DescriptionAt(a) = shortcuts[j].description
                    /\ DescriptionAt(b) = shortcuts[j].description
                    /\ shortcuts[j].keybind_display[1] = DisplayAt(a) \o <<" ","/"," ">> \o DisplayAt(b)
        /\ Len(shortcuts) <= Cardinality({DescriptionAt(i) : i \in EnabledAt})

\* C1 witness: a disabled pair, met first, carries the explicit description
\* of a group of two enabled pairs, and that group's record is in the list.
C1_Witness ==
    /\ Loaded
    /\ Len(cs_shortcuts) = 3
    /\ cs_shortcuts[1].action.tag = "Disable"
    /\ cs_shortcuts[1].binding.description = Some(<<"C","l","o","s","e"," ","w","i","n","d","o","w">>)
    /\ \E j \in DOMAIN shortcuts :
        /\ shortcuts[j].description = <<"C","l","o","s","e"," ","w","i","n","d","o","w">>
        /\ shortcuts[j].keybind_display # None

\* C4. Sort order: the descriptions of consecutive records of the returned
\* list are non-decreasing under byte-wise comparison, and the list holds
\* the records the filter kept.
C4_SortedByDescription ==
    Loaded =>
        /\ \A i \in 1..(Len(shortcuts) - 1) :
            BytewiseLeq(shortcuts[i].description, shortcuts[i + 1].description)
        /\ Range(shortcuts) \subseteq Range(merged)

\* C4 witness: the merge stage yields "Zoom in", "Close window", "Maximize
\* window" in this order and the list has them sorted.
C4_Witness ==
    /\ Loaded
    /\ [i \in DOMAIN merged |-> merged[i].description]
         = <<<<"Z","o","o","m"," ","i","n">>, <<"C","l","o","s","e"," ","w","i","n","d","o","w">>, <<"M","a","x","i","m","i","z","e"," ","w","i","n","d","o","w">>>>
    /\ [i \in DOMAIN shortcuts |-> shortcuts[i].description]
         = <<<<"C","l","o","s","e"," ","w","i","n","d","o","w">>, <<"M","a","x","i","m","i","z","e"," ","w","i","n","d","o","w">>, <<"Z","o","o","m"," ","i","n">>>>

\* C6. Provider failure and empty input: when the context cannot be opened
\* the load returns the error and init stores the empty list; when the
\* snapshot is empty the load returns Ok with the empty list; init always
\* ends with the application running.
C6_LoadFailureRecovered ==
    /\ pc \in {"start", "running"}
    /\ pc = "running" /\ ~context_opens => load_result = "Err" /\ shortcuts = <<>>
    /\ pc = "running" /\ context_opens => load_result = "Ok"
    /\ pc = "running" /\ context_opens /\ snapshot = {} => shortcuts = <<>>

\* C6 witness: the context failed to open over a snapshot that has pairs,
\* and the application runs with the empty list.
C6_Witness ==
    /\ pc = "running"
    /\ ~context_opens
    /\ snapshot # {}
    /\ load_result = "Err"
    /\ shortcuts = <<>>

\* C7. Single-member pass-through: a description with one enabled pair gives
\* one record of the merge stage, with that pair's modifiers and key and
\* keybind_display unset; it renders as the modifier+key format, without
\* " / ", and as the empty string when there is no modifier and no key; the
\* returned list holds it unchanged if at all.
C7_SingleMemberPassThrough ==
    Loaded =>
        \A i \in EnabledAt :
            Len(Members(DescriptionAt(i))) = 1 =>
                /\ \E j \in DOMAIN merged :
                    /\ merged[j].description = DescriptionAt(i)
                    /\ \A k \in DOMAIN merged :
                        merged[k].description = DescriptionAt(i) => k = j
                    /\ merged[j].keybind_display = None
                    /\ merged[j].modifiers = cs_shortcuts[i].binding.modifiers
                    /\ merged[j].key = cs_shortcuts[i].binding.key
                    /\ KeyBinding_to_string(merged[j]) = DisplayAt(i)
                    /\ ~Contains(KeyBinding_to_string(merged[j]), <<" ","/"," ">>)
                    /\ (/\ merged[j].modifiers = Modifiers_new
                        /\ merged[j].key = None) => KeyBinding_to_string(merged[j]) = <<>>
                    /\ \A k \in DOMAIN shortcuts :
                        shortcuts[k].description = DescriptionAt(i) =>
                            shortcuts[k] = merged[j]

\* C7 witness: a single pair with all four modifiers and a key whose name
\* starts with KEY_ is in the list and renders "Super + Ctrl + Alt + Shift + F".
C7_Witness ==
    /\ Loaded
    /\ Len(shortcuts) = 1
    /\ shortcuts[1].modifiers = Mods(TRUE, TRUE, TRUE, TRUE)
    /\ shortcuts[1].key = Some("KEY_F")
    /\ shortcuts[1].keybind_display = None
    /\ KeyBinding_to_string(shortcuts[1]) = <<"S","u","p","e","r"," ","+"," ","C","t","r","l"," ","+"," ","A","l","t"," ","+"," ","S","h","i","f","t"," ","+"," ","F">>

\* C10. Description uniqueness: the merge stage emits one record per
\* distinct description of the enabled pairs, so neither its output nor the
\* returned list has two records of one description.
C10_DescriptionsUnique ==
    Loaded =>
        /\ Len(merged) = Cardinality({DescriptionAt(i) : i \in EnabledAt})
        /\ {merged[j].description : j \in DOMAIN merged} = {DescriptionAt(i) : i \in EnabledAt}
        /\ \A j, k \in DOMAIN merged :
            merged[j].description = merged[k].description => j = k
        /\ \A j, k \in DOMAIN shortcuts :
            shortcuts[j].description = shortcuts[k].description => j = k

\* C10 witness: three enabled pairs of two descriptions give two records.
C10_Witness ==
    /\ Loaded
    /\ Len(cs_shortcuts) = 3
    /\ EnabledAt = {1, 2, 3}
    /\ Cardinality({DescriptionAt(i) : i \in EnabledAt}) = 2
    /\ Len(merged) = 2
    /\ Len(shortcuts) = 2

\* C2. Grouping correctness, as claimed: every description with two or more
\* members has exactly one record in the returned list, and that record
\* represents the group.
C2_GroupHasOneOutputRecord ==
    Loaded =>
        \A d \in SharedDescriptions :
            \E j \in DOMAIN shortcuts :
                /\ RepresentsGroup(shortcuts[j], d)
                /\ \A k \in DOMAIN shortcuts : shortcuts[k].description = d => k = j

\* C2, amended. Every description with two or more members has exactly one
\* record in the output of the merge stage, and that record represents the
\* group: members 3..k leave no trace in it. The returned list holds that
\* record, once, unless the name of the first member's key starts with XF86;
\* then it holds no record of the description.
C2_GroupHasOneMergedRecord ==
    Loaded =>
        \A d \in SharedDescriptions :
            /\ \E j \in DOMAIN merged :
                /\ RepresentsGroup(merged[j], d)
                /\ \A k \in DOMAIN merged : merged[k].description = d => k = j
                /\ \A k \in DOMAIN shortcuts :
                    shortcuts[k].description = d => shortcuts[k] = merged[j]
            /\ Cardinality({k \in DOMAIN shortcuts : shortcuts[k].description = d})
                 = IF KeyIsXF86(cs_shortcuts[Members(d)[1]].binding.key) THEN 0 ELSE 1

\* C2 witness: a group of three members whose third is the pair with the
\* XF86 key; the list holds its record, displayed "Super + Tab / Ctrl + Alt".
C2_Witness ==
    /\ Loaded
    /\ \E d \in SharedDescriptions :
        /\ Len(Members(d)) = 3
        /\ KeyIsXF86(cs_shortcuts[Members(d)[3]].binding.key)
        /\ \E j \in DOMAIN shortcuts :
            /\ shortcuts[j].description = d
            /\ shortcuts[j].keybind_display = Some(<<"S","u","p","e","r"," ","+"," ","T","a","b"," ","/"," ","C","t","r","l"," ","+"," ","A","l","t">>)

\* C3. Noise removal, as claimed: an enabled pair whose key name starts with
\* XF86 is no record of the returned list and no component of any record's
\* rendered string; a record without a key passes the filter.
C3_XF86Absent ==
    Loaded =>
        /\ \A i \in EnabledAt :
            KeyIsXF86(cs_shortcuts[i].binding.key) =>
                \A j \in DOMAIN shortcuts :
                    /\ ~(/\ shortcuts[j].modifiers = cs_shortcuts[i].binding.modifiers
                         /\ shortcuts[j].key = cs_shortcuts[i].binding.key)
                    /\ ~IsComponent(DisplayAt(i), KeyBinding_to_string(shortcuts[j]))
        /\ \A j \in DOMAIN merged : merged[j].key = None => merged[j] \in Range(shortcuts)

\* C5. Determinism, as claimed: every run of the load over the snapshot
\* returns the list that this run returned.
C5_Deterministic ==
    Loaded => \A r \in load_cosmic_shortcuts(TRUE, snapshot) : r.value = shortcuts

\* C8. Refresh triggers, as claimed: while the applet runs, its list comes to
\* be one built from the provider's current snapshot.
C8_ListFollowsSnapshot ==
    [](pc = "running" => <>(shortcuts \in ListsOf(snapshot)))

\* C8, amended. The pipeline runs once, in AppModel::init, and stores a list
\* built from the snapshot of that moment; no message handled by
\* AppModel::update, UpdateConfig included, replaces the list.
C8_ListBuiltOnceAtStart ==
    [][/\ pc = "start" /\ pc' = "running" => shortcuts' \in ListsOf(snapshot)
       /\ pc = "running" => pc' = "running" /\ shortcuts' = shortcuts]_vars

\* C8 witness: the settings changed, UpdateConfig was handled after it, and
\* the list is none that the current snapshot gives.
C8_Witness ==
    /\ pc = "running"
    /\ changes > 0
    /\ config = "changed"
    /\ shortcuts \notin ListsOf(snapshot)

\* C9. Action Describer totality, as claimed: every action, every Spawn
\* included, is described by a non-empty string.
C9_DescriptionNonEmpty ==
    description_out # None => description_out[1] # <<>>

\* C9, amended. Every action is described by a non-empty string, except that
\* Spawn with the empty command is described by the empty string; Spawn is
\* described by its command verbatim; Workspace(i) by "Workspace " and
\* MoveToWorkspace(i), SendToWorkspace(i) by "Move window to workspace ",
\* each followed by the decimal numeral of i.
C9_DescriptionTotal ==
    description_out # None =>
        LET action == action_in[1]
            description == description_out[1]
        IN  /\ description = <<>> <=> (action.tag = "Spawn" /\ action.cmd = <<>>)
            /\ action.tag = "Spawn" => description = action.cmd
            /\ action.tag = "Workspace" =>
                /\ SubSeq(description, 1, 10) = <<"W","o","r","k","s","p","a","c","e"," ">>
                /\ IsDecimalOf(SubSeq(description, 11, Len(description)), action.i)
            /\ action.tag \in {"MoveToWorkspace", "SendToWorkspace"} =>
                /\ SubSeq(description, 1, 25) = <<"M","o","v","e"," ","w","i","n","d","o","w"," ","t","o"," ","w","o","r","k","s","p","a","c","e"," ">>
                /\ IsDecimalOf(SubSeq(description, 26, Len(description)), action.i)

\* C9 witness: SendToWorkspace(255) has been described.
C9_Witness ==
    /\ action_in = Some([tag |-> "SendToWorkspace", i |-> 255])
    /\ description_out # None
    /\ Len(description_out[1]) = 28

\* The positions of the enabled pairs of the last load, in encounter order.
EnabledSeq == SelectSeq([i \in DOMAIN cs_shortcuts |-> i], LAMBDA i : i \in EnabledAt)

\* The description the pair at position i is to resolve to: its explicit
\* description when it has one, the describer's string for its action otherwise.
ResolvedAt(i) ==
    IF cs_shortcuts[i].binding.description # None
    THEN cs_shortcuts[i].binding.description[1]
    ELSE localize_action(cs_shortcuts[i].action)

\* Record r was made from the pair at position i: it has its modifiers and key.
MadeFrom(r, i) ==
    /\ r.modifiers = cs_shortcuts[i].binding.modifiers
    /\ r.key = cs_shortcuts[i].binding.key

\* The pairs at positions i and j were put into one group of grouped.
SameGroup(i, j) ==
    LET grouped == GroupByDescription(normalized)
    IN  \E d \in DOMAIN grouped :
            /\ \E r \in Range(grouped[d]) : MadeFrom(r, i)
            /\ \E r \in Range(grouped[d]) : MadeFrom(r, j)

\* C11. Description resolution: the first loop gives one record per enabled
\* pair, in encounter order, whose description is the pair's explicit
\* description when it has one and localize_action(action) otherwise, and
\* whose keybind_display is unset; and two enabled pairs with different
\* actions are in one group exactly when those descriptions are equal.
C11_DescriptionResolution ==
    Loaded =>
        /\ Len(normalized) = Len(EnabledSeq)
        /\ \A k \in DOMAIN normalized :
            /\ MadeFrom(normalized[k], EnabledSeq[k])
            /\ normalized[k].description = ResolvedAt(EnabledSeq[k])
            /\ normalized[k].keybind_display = None
        /\ \A i, j \in EnabledAt :
            cs_shortcuts[i].action # cs_shortcuts[j].action =>
                (SameGroup(i, j) <=> ResolvedAt(i) = ResolvedAt(j))

\* C11 witness: a Spawn pair whose explicit description is "Close window"
\* shares the group of a Close pair without description, and a third enabled
\* pair with yet another action is in a group of its own.
C11_Witness ==
    /\ Loaded
    /\ \E i, j, k \in EnabledAt :
        /\ cs_shortcuts[i].action.tag = "Spawn"
        /\ cs_shortcuts[i].binding.description # None
        /\ cs_shortcuts[j].action.tag = "Close"
        /\ cs_shortcuts[j].binding.description = None
        /\ SameGroup(i, j)
        /\ cs_shortcuts[k].action.tag \notin {"Spawn", "Close"}
        /\ ~SameGroup(i, k)
        /\ Len(merged) = 2

\* C11 second witness: MoveToNextWorkspace and SendToNextWorkspace, both
\* without explicit description, are in one group.
C11_WitnessSameStaticDescription ==
    /\ Loaded
    /\ \E i, j \in EnabledAt :
        /\ cs_shortcuts[i].action.tag = "MoveToNextWorkspace"
        /\ cs_shortcuts[j].action.tag = "SendToNextWorkspace"
        /\ cs_shortcuts[i].binding.description = None
        /\ cs_shortcuts[j].binding.description = None
        /\ SameGroup(i, j)
        /\ Len(merged) = 1

\* The descriptions of the enabled pairs of the last load: the groups.
GroupDescriptions == {DescriptionAt(i) : i \in EnabledAt}

\* The returned list has no record of description d.
AbsentFromOutput(d) == \A k \in DOMAIN shortcuts : shortcuts[k].description # d

\* C12. Filter after merge: a description group is absent from the returned
\* list if and only if the key of its first-encountered enabled member has a
\* name that starts with XF86; the keys of its other members do not matter.
C12_AbsentIffTemplateXF86 ==
    Loaded =>
        \A d \in GroupDescriptions :
            AbsentFromOutput(d) <=> KeyIsXF86(cs_shortcuts[Members(d)[1]].binding.key)

\* C12 witness: a group whose second member has the XF86 key and whose first
\* has not is in the returned list.
C12_Witness ==
    /\ Loaded
    /\ \E d \in SharedDescriptions :
        /\ ~KeyIsXF86(cs_shortcuts[Members(d)[1]].binding.key)
        /\ KeyIsXF86(cs_shortcuts[Members(d)[2]].binding.key)
        /\ ~AbsentFromOutput(d)

\* C12 second witness: a group whose first member has the XF86 key and whose
\* other members have not is absent, while another group is in the list.
C12_WitnessDropped ==
    /\ Loaded
    /\ \E d \in SharedDescriptions :
        /\ KeyIsXF86(cs_shortcuts[Members(d)[1]].binding.key)
        /\ ~KeyIsXF86(cs_shortcuts[Members(d)[2]].binding.key)
        /\ AbsentFromOutput(d)
    /\ shortcuts # <<>>

\* The step is one call of AppModel::update: the applet runs, and neither
\* AppModel::init nor a change of the provider's settings is what happens.
UpdateStep == pc = "running" /\ pc' = "running" /\ changes' = changes

\* C13. Popup toggle state machine: in every call of update, TogglePopup
\* opens a popup with a fresh id when none is open and clears the open one
\* otherwise; PopupClosed(id) clears the popup only when id is the open
\* popup's id, so a stale PopupClosed leaves a newer popup open; SearchInput,
\* UpdateConfig and SubscriptionChannel leave popup and list unchanged.
C13_PopupStateMachine ==
    [][UpdateStep =>
        /\ last_message' # None
        /\ LET message == last_message'[1]
           IN  /\ message.tag = "TogglePopup" =>
                    IF popup = None
                    THEN /\ popup' # None
                         /\ popup'[1] >= next_id
                         /\ next_id' > popup'[1]
                    ELSE popup' = None
               /\ message.tag = "PopupClosed" =>
                    popup' = IF popup = <<message.id>> THEN None ELSE popup
               /\ message.tag \in {"SearchInput", "UpdateConfig", "SubscriptionChannel"} =>
                    popup' = popup /\ shortcuts' = shortcuts
        /\ popup # None => popup[1] < next_id]_vars

\* C13 witness: the second popup is open and the message handled last was
\* the PopupClosed of the first, closed, popup.
C13_Witness ==
    /\ pc = "running"
    /\ popup = <<2>>
    /\ last_message # None
    /\ last_message[1].tag = "PopupClosed"
    /\ last_message[1].id = 1

====
